---- MODULE Spec2Model ----
(***************************************************************************)
(* Model of scripts/plot_downloads.py: fetch daily download counts, merge  *)
(* them into the persisted CSV history, fill date gaps, plot the trailing  *)
(* window.                                                                 *)
(*                                                                         *)
(* A date is a day number (day 0 is 2024-01-30, so the range crosses a     *)
(* month boundary in the CSV text).  A DataFrame with the columns          *)
(* (date, downloads) is a sequence of rows [date, downloads]; a pd.Series  *)
(* is a record [name, data] whose data rows carry the index in "date".     *)
(*                                                                         *)
(* DataFrame.sort_values is called with its default kind="quicksort",      *)
(* which pandas and numpy document as not stable: rows with equal keys may *)
(* come out in any order.  An operator that sorts therefore yields the SET *)
(* of frames the call may return.                                          *)
(***************************************************************************)
EXTENDS Integers, Sequences, FiniteSets, TLC

\* ---------------------------------------------------------------- bounds
MaxDay == 2
MaxCount == 1
MaxRecords == 2
MaxWindow == 2

DefaultDays == 365

Days == 0..MaxDay
Counts == 0..MaxCount
Categories == {"with_mirrors", "without_mirrors"}
Statuses == {200, 404, 500}
WindowSizes == (1..MaxWindow) \cup {DefaultDays}

\* ------------------------------------------------------------- utilities
Range(s) == {s[i] : i \in DOMAIN s}

DatesOf(rows) == {rows[i].date : i \in DOMAIN rows}

MinOf(S) == CHOOSE x \in S : \A y \in S : x <= y

MaxOf(S) == CHOOSE x \in S : \A y \in S : y <= x

Row(d, c) == [date |-> d, downloads |-> c]

\* the orders in which the elements of the index set S can be listed
RECURSIVE Orderings(_)
Orderings(S) ==
    IF S = {} THEN {<< >>}
    ELSE UNION {{<<x>> \o o : o \in Orderings(S \ {x})} : x \in S}

\* df.empty
empty(df) == Len(df) = 0

\* pd.DataFrame(columns=["date", "downloads"])
EmptyFrame == << >>

\* ------------------------------------------------------ DataFrame methods
\* sort_values("date"): ascending by date, equal dates in any order
RECURSIVE SortFrom(_, _)
SortFrom(rows, d) ==
    IF d > MaxOf(DatesOf(rows)) THEN {<< >>}
    ELSE LET same == {i \in DOMAIN rows : rows[i].date = d}
             heads == {[k \in 1..Len(o) |-> rows[o[k]]] : o \in Orderings(same)}
         IN  {h \o t : h \in heads, t \in SortFrom(rows, d + 1)}

sort_values(rows) ==
    IF rows = << >> THEN {<< >>} ELSE SortFrom(rows, MinOf(DatesOf(rows)))

\* drop_duplicates(subset=["date"], keep="last")
drop_duplicates(rows) ==
    LET keep(i) == \A j \in DOMAIN rows : j > i => rows[j].date # rows[i].date
        RECURSIVE Sel(_)
        Sel(i) == IF i > Len(rows) THEN << >>
                  ELSE (IF keep(i) THEN <<rows[i]>> ELSE << >>) \o Sel(i + 1)
    IN  Sel(1)

\* ------------------------------------------------------------- pd.Series
\* pd.Series(dtype=int): no rows and no name
EmptySeries == [name |-> "None", data |-> << >>]

\* df.set_index("date")["downloads"]
AsSeries(df) == [name |-> "downloads", data |-> df]

\* reindex(idx, fill_value=0) over the daily range start..end; the index of
\* df is unique wherever the script calls it
reindex(df, start, end) ==
    [i \in 1..(end - start + 1) |->
        LET d == start + i - 1
        IN  IF d \in DatesOf(df)
            THEN (CHOOSE r \in Range(df) : r.date = d)
            ELSE Row(d, 0)]

\* mutant: the series is handed on with its gaps, no reindex
ensure_continuous_daily_no_reindex(df) ==
    IF empty(df) THEN EmptySeries ELSE AsSeries(df)

ensure_continuous_daily(df) ==
    IF empty(df) THEN EmptySeries
    ELSE LET start == MinOf(DatesOf(df))
             end == MaxOf(DatesOf(df))
         IN  [name |-> "downloads", data |-> reindex(df, start, end)]

\* mutant: the window starts days, not days - 1, before its end
last_n_days_one_more(series, days, today) ==
    IF empty(series.data) THEN series
    ELSE LET index == DatesOf(series.data)
             end == IF today \in index THEN today ELSE MaxOf(index)
             start == end - days
         IN  [series EXCEPT !.data =
                 SelectSeq(series.data, LAMBDA r : r.date >= start /\ r.date <= end)]

\* mutant: the window always ends at the last available day
last_n_days_ends_at_max(series, days, today) ==
    IF empty(series.data) THEN series
    ELSE LET end == MaxOf(DatesOf(series.data))
             start == end - (days - 1)
         IN  [series EXCEPT !.data =
                 SelectSeq(series.data, LAMBDA r : r.date >= start /\ r.date <= end)]

\* date.today() is the parameter today
last_n_days(series, days, today) ==
    IF empty(series.data) THEN series
    ELSE LET index == DatesOf(series.data)
             end == IF today \in index THEN today ELSE MaxOf(index)
             start == end - (days - 1)
         IN  [series EXCEPT !.data =
                 SelectSeq(series.data, LAMBDA r : r.date >= start /\ r.date <= end)]

\* ------------------------------------------------------------ merge_history
merge_history(existing, new) ==
    IF empty(existing) /\ empty(new) THEN {EmptyFrame}
    ELSE LET merged == IF empty(existing) THEN {new}
                       ELSE IF empty(new) THEN {existing}
                       ELSE {drop_duplicates(s) : s \in sort_values(existing \o new)}
         IN  UNION {sort_values(m) : m \in merged}

\* ------------------------------------------------------------ the CSV file
\* the ISO text of a date, as its (year, month, day) fields
DateText(d) ==
    LET o == d + 29
    IN  IF o < 31 THEN <<2024, 1, o + 1>> ELSE <<2024, 2, o - 30>>

\* pd.to_datetime on such a text
to_datetime(t) == IF t[2] = 1 THEN t[3] - 30 ELSE t[3] + 1

\* the decimal digits of a count
RECURSIVE CountText(_)
CountText(n) == IF n < 10 THEN <<n>> ELSE CountText(n \div 10) \o <<n % 10>>

\* pd.to_numeric(errors="coerce").fillna(0).astype(int)
RECURSIVE to_numeric(_)
to_numeric(t) ==
    IF t = << >> \/ \E i \in DOMAIN t : t[i] \notin 0..9 THEN 0
    ELSE IF Len(t) = 1 THEN t[1]
    ELSE 10 * to_numeric(SubSeq(t, 1, Len(t) - 1)) + t[Len(t)]

NoFile == [exists |-> FALSE, header |-> << >>, lines |-> << >>]

\* series.to_frame(): the column is named after the series, 0 if it has no name
to_frame_column(series) == IF series.name = "None" THEN "0" ELSE series.name

\* to_frame().reset_index().rename(columns={"index": "date"}).to_csv(index=False)
to_csv(series) ==
    [exists |-> TRUE,
     header |-> <<"date", to_frame_column(series)>>,
     lines  |-> [i \in DOMAIN series.data |->
                    <<DateText(series.data[i].date),
                      CountText(series.data[i].downloads)>>]]

\* df["downloads"] raises KeyError when the file has no such column
load_raises(csv) == csv.exists /\ "downloads" \notin Range(csv.header)

load_history(csv) ==
    IF ~csv.exists THEN {EmptyFrame}
    ELSE LET col == CHOOSE k \in DOMAIN csv.header : csv.header[k] = "downloads"
         IN  sort_values([i \in DOMAIN csv.lines |->
                 Row(to_datetime(csv.lines[i][1]), to_numeric(csv.lines[i][col]))])

\* ------------------------------------------------------------- the fetcher
\* mutant: the status of the response is never looked at
raise_for_status_skipped(status) == FALSE

\* r.raise_for_status(): HTTPError for 4xx and 5xx
raise_for_status(status) == status >= 400

Keys == Categories \X Days

\* the "data" list of the payload: at most MaxRecords records, one per
\* (category, date)
Payloads ==
    {{[category |-> k[1], date |-> k[2], downloads |-> f[k]] : k \in DOMAIN f} :
        f \in UNION {[K -> Counts] : K \in {S \in SUBSET Keys : Cardinality(S) <= MaxRecords}}}

fetch_pypistats_daily(data) ==
    IF data = {} THEN {EmptyFrame}
    ELSE LET coverage(c) == Cardinality({r.date : r \in {x \in data : x.category = c}})
             present == {r.category : r \in data}
             best == {c \in present : \A o \in present : coverage(o) <= coverage(c)}
             rowsOf(c) == {Row(r.date, r.downloads) : r \in {x \in data : x.category = c}}
             frames(c) == {[k \in 1..Len(o) |-> o[k]] : o \in Orderings(rowsOf(c))}
         IN  UNION {sort_values(df) : df \in UNION {frames(c) : c \in best}}

\* ------------------------------------------------------------------ state
VARIABLES
    file,           \* the history CSV on disk
    image,          \* the PNG on disk
    pc,             \* where main() is: idle, fetch, merge, plot, exited
    exitCode,       \* of the last run: -1 while running, 0, 1
    error,          \* the exception that ended the last run, "" for none
    status,         \* the HTTP status of the last request
    requests,       \* HTTP requests made by the run
    new_df, existing_df, merged_df, merged_series, window,   \* main's locals
    plotted,        \* plot_series has saved the figure in this run
    file0, image0,  \* the disk as the run found it
    a, b, days,     \* arguments of a function applied on its own
    today,          \* date.today() for last_n_days applied on its own
    fn,             \* the function applied: init, merge, merge2, fill, window
    fnMerged, fnMerged2, fnSeries, fnWindow   \* its results

vars == <<file, image, pc, exitCode, error, status, requests, new_df, existing_df,
          merged_df, merged_series, window, plotted, today, file0, image0,
          a, b, days, fn, fnMerged, fnMerged2, fnSeries, fnWindow>>

disk == <<file, image>>
locals == <<new_df, existing_df, merged_df, merged_series, window, plotted>>
fnVars == <<a, b, days, fn, fnMerged, fnMerged2, fnSeries, fnWindow>>

\* the PNG is modelled by its existence; what it shows is the run's window
NoImage == [exists |-> FALSE]

\* frames with at most one row per date, sorted by date
Frames ==
    UNION {{[i \in 1..Cardinality(S) |->
                LET d == CHOOSE x \in S : Cardinality({y \in S : y < x}) = i - 1
                IN  Row(d, f[d])] : f \in [S -> Counts]} : S \in SUBSET Days}

MainIdle ==
    /\ file = NoFile /\ image = NoImage
    /\ pc = "idle" /\ exitCode = -1 /\ error = "" /\ status = 0 /\ requests = 0
    /\ new_df = EmptyFrame /\ existing_df = EmptyFrame /\ merged_df = EmptyFrame
    /\ merged_series = EmptySeries /\ window = EmptySeries /\ plotted = FALSE
    /\ file0 = NoFile /\ image0 = NoImage

FnIdle ==
    /\ fn = "init" /\ fnMerged = EmptyFrame /\ fnMerged2 = EmptyFrame
    /\ fnSeries = EmptySeries /\ fnWindow = EmptySeries

\* ------------------------------------------------------------------- main
Init ==
    /\ MainIdle /\ FnIdle
    /\ today = 0 /\ a = EmptyFrame /\ b = EmptyFrame /\ days = DefaultDays

\* the script is started: fresh locals, the disk as the last run left it
Launch ==
    /\ pc \in {"idle", "exited"}
    /\ pc' = "fetch"
    /\ exitCode' = -1 /\ error' = "" /\ status' = 0 /\ requests' = 0
    /\ new_df' = EmptyFrame /\ existing_df' = EmptyFrame /\ merged_df' = EmptyFrame
    /\ merged_series' = EmptySeries /\ window' = EmptySeries /\ plotted' = FALSE
    /\ file0' = file /\ image0' = image
    /\ UNCHANGED <<disk, today, fnVars>>

\* new_df = fetch_pypistats_daily(package): the request fails
FetchFails ==
    /\ pc = "fetch"
    /\ \E st \in Statuses :
        /\ raise_for_status(st)
        /\ status' = st
    /\ requests' = requests + 1
    /\ pc' = "exited" /\ exitCode' = 1 /\ error' = "HTTPError"
    /\ UNCHANGED <<disk, locals, today, file0, image0, fnVars>>

\* new_df = fetch_pypistats_daily(package): the request succeeds
FetchReturns ==
    /\ pc = "fetch"
    /\ \E st \in Statuses, data \in Payloads :
        /\ ~raise_for_status(st)
        /\ status' = st
        /\ new_df' \in fetch_pypistats_daily(data)
    /\ requests' = requests + 1
    /\ pc' = "merge"
    /\ UNCHANGED <<disk, exitCode, error, existing_df, merged_df, merged_series,
                   window, plotted, today, file0, image0, fnVars>>

\* existing_df = load_history(history_csv) raises
LoadFails ==
    /\ pc = "merge"
    /\ load_raises(file)
    /\ pc' = "exited" /\ exitCode' = 1 /\ error' = "KeyError"
    /\ UNCHANGED <<disk, status, requests, locals, today, file0, image0, fnVars>>

\* load_history, merge_history, ensure_continuous_daily, to_csv
MergeAndPersist ==
    /\ pc = "merge"
    /\ ~load_raises(file)
    /\ \E ex \in load_history(file) :
        \E m \in merge_history(ex, new_df) :
            /\ existing_df' = ex
            /\ merged_df' = m
            /\ merged_series' = ensure_continuous_daily(m)
            /\ file' = to_csv(ensure_continuous_daily(m))
    /\ pc' = "plot"
    /\ UNCHANGED <<image, exitCode, error, status, requests, new_df, window, plotted,
                   today, file0, image0, fnVars>>

\* window = last_n_days(merged_series, days=365) is empty: SystemExit
\* (t is what date.today() returns inside last_n_days)
PlotFails ==
    /\ pc = "plot"
    /\ \E t \in Days :
        /\ window' = last_n_days(merged_series, DefaultDays, t)
        /\ empty(last_n_days(merged_series, DefaultDays, t).data)
    /\ pc' = "exited" /\ exitCode' = 1 /\ error' = "SystemExit"
    /\ UNCHANGED <<disk, status, requests, new_df, existing_df, merged_df,
                   merged_series, plotted, today, file0, image0, fnVars>>

\* plot_series(window, package, out_png)
PlotSaves ==
    /\ pc = "plot"
    /\ \E t \in Days :
        /\ window' = last_n_days(merged_series, DefaultDays, t)
        /\ ~empty(last_n_days(merged_series, DefaultDays, t).data)
        /\ image' = [exists |-> TRUE]
    /\ plotted' = TRUE
    /\ pc' = "exited" /\ exitCode' = 0
    /\ UNCHANGED <<file, error, status, requests, new_df, existing_df, merged_df,
                   merged_series, today, file0, image0, fnVars>>

Next ==
    \/ Launch
    \/ FetchFails
    \/ FetchReturns
    \/ LoadFails
    \/ MergeAndPersist
    \/ PlotFails
    \/ PlotSaves

Spec == Init /\ [][Next]_vars

\* ------------------------------------------- merge_history applied on its own
MergeInit ==
    /\ MainIdle /\ FnIdle
    /\ today = 0 /\ days = DefaultDays
    /\ a \in Frames /\ b \in Frames

ApplyMerge ==
    /\ fn = "init"
    /\ fnMerged' \in merge_history(a, b)
    /\ fn' = "merge"
    /\ UNCHANGED <<disk, pc, exitCode, error, status, requests, locals, today,
                   file0, image0, a, b, days, fnMerged2, fnSeries, fnWindow>>

ApplyMergeAgain ==
    /\ fn = "merge"
    /\ fnMerged2' \in merge_history(fnMerged, b)
    /\ fn' = "merge2"
    /\ UNCHANGED <<disk, pc, exitCode, error, status, requests, locals, today,
                   file0, image0, a, b, days, fnMerged, fnSeries, fnWindow>>

MergeNext == ApplyMerge \/ ApplyMergeAgain

MergeSpec == MergeInit /\ [][MergeNext]_vars

\* ------------- ensure_continuous_daily and last_n_days applied on their own
SeriesInit ==
    /\ MainIdle /\ FnIdle
    /\ b = EmptyFrame
    /\ a \in Frames /\ today \in Days /\ days \in WindowSizes

ApplyFill ==
    /\ fn = "init"
    /\ fnSeries' = ensure_continuous_daily(a)
    /\ fn' = "fill"
    /\ UNCHANGED <<disk, pc, exitCode, error, status, requests, locals, today,
                   file0, image0, a, b, days, fnMerged, fnMerged2, fnWindow>>

ApplyWindow ==
    /\ fn = "init"
    /\ fnWindow' = last_n_days(AsSeries(a), days, today)
    /\ fn' = "window"
    /\ UNCHANGED <<disk, pc, exitCode, error, status, requests, locals, today,
                   file0, image0, a, b, days, fnMerged, fnMerged2, fnSeries>>

SeriesNext == ApplyFill \/ ApplyWindow

SeriesSpec == SeriesInit /\ [][SeriesNext]_vars

\* ----------------------------------------------------------------- claims
CountAt(rows, d) == (CHOOSE r \in Range(rows) : r.date = d).downloads

Ascending(rows) == \A i \in 1..(Len(rows) - 1) : rows[i].date < rows[i + 1].date

Daily(rows) == \A i \in 1..(Len(rows) - 1) : rows[i + 1].date = rows[i].date + 1

\* the rows a CSV holds, read cell by cell
StoredRows(csv) ==
    [i \in DOMAIN csv.lines |-> Row(to_datetime(csv.lines[i][1]), to_numeric(csv.lines[i][2]))]

\* the run has passed the to_csv of main
Persisted == pc = "plot" \/ (pc = "exited" /\ error \in {"", "SystemExit"})

\* C1: merge_history(existing, new) has exactly one row for every date of
\* either input, ascending by date; a date of both inputs carries the count of
\* new, a date of one input carries that input's count.
C1_MergeNewWins ==
    fn = "merge" =>
        /\ DatesOf(fnMerged) = DatesOf(a) \cup DatesOf(b)
        /\ Ascending(fnMerged)
        /\ \A i \in DOMAIN fnMerged :
            LET d == fnMerged[i].date
            IN  fnMerged[i].downloads = IF d \in DatesOf(b) THEN CountAt(b, d) ELSE CountAt(a, d)

\* C2: ensure_continuous_daily of a non-empty frame starts at its minimum
\* date, ends at its maximum date, steps by exactly one day, keeps the count of
\* every input date and gives 0 to every other date; of an empty frame it is
\* empty.
C2_FillGaps ==
    fn = "fill" =>
        IF empty(a) THEN empty(fnSeries.data)
        ELSE /\ ~empty(fnSeries.data)
             /\ fnSeries.data[1].date = MinOf(DatesOf(a))
             /\ fnSeries.data[Len(fnSeries.data)].date = MaxOf(DatesOf(a))
             /\ Daily(fnSeries.data)
             /\ \A i \in DOMAIN fnSeries.data :
                 LET d == fnSeries.data[i].date
                 IN  fnSeries.data[i].downloads = IF d \in DatesOf(a) THEN CountAt(a, d) ELSE 0

C2_Witness ==
    /\ fn = "fill"
    /\ Len(a) = 2 /\ a[2].date > a[1].date + 1 /\ a[1].downloads > 0
    /\ Len(fnSeries.data) > 2

\* C3 as stated: last_n_days(series, 365) returns no date later than today
\* and no date later than the series' max date.
C3_NeverAfterToday ==
    (fn = "window" /\ days = DefaultDays) =>
        \A i \in DOMAIN fnWindow.data :
            /\ fnWindow.data[i].date <= today
            /\ fnWindow.data[i].date <= MaxOf(DatesOf(a))

\* C3 amended: last_n_days(series, 365) returns no date later than the series'
\* max date, and no date later than today when today is a date of the series
\* or the series has no date after today.
C3_NeverAfterEnd ==
    (fn = "window" /\ days = DefaultDays) =>
        \A i \in DOMAIN fnWindow.data :
            /\ fnWindow.data[i].date <= MaxOf(DatesOf(a))
            /\ (today \in DatesOf(a) \/ MaxOf(DatesOf(a)) <= today)
                   => fnWindow.data[i].date <= today

C3_Witness ==
    /\ fn = "window" /\ days = DefaultDays
    /\ today \in DatesOf(a) /\ MaxOf(DatesOf(a)) > today
    /\ ~empty(fnWindow.data)

\* C4: loading the history file that main has just written gives back the
\* merged, gap-filled series row for row.
C4_RoundTrip ==
    pc = "plot" =>
        /\ ~load_raises(file)
        /\ load_history(file) = {merged_series.data}

\* C5: a history file written by a run has the header (date, downloads) and
\* one row per calendar day from its first to its last date, ascending, no
\* date twice.
C5_FileFormat ==
    file.exists =>
        /\ file.header = <<"date", "downloads">>
        /\ \A i \in DOMAIN file.lines : Len(file.lines[i]) = 2
        /\ Daily(StoredRows(file))

\* C6: a run that persists keeps every stored date; a stored date that is
\* fetched takes the fetched count and any other stored date keeps its count;
\* a date the run adds is a fetched date with its fetched count or a gap day
\* with count 0.
C6_Accumulates ==
    (Persisted /\ ~load_raises(file0)) =>
        LET before == StoredRows(file0)
            after == StoredRows(file)
        IN  /\ DatesOf(before) \subseteq DatesOf(after)
            /\ \A d \in DatesOf(after) :
                CountAt(after, d) =
                    IF d \in DatesOf(new_df) THEN CountAt(new_df, d)
                    ELSE IF d \in DatesOf(before) THEN CountAt(before, d)
                    ELSE 0

\* C7: merge_history(merge_history(A, B), B) = merge_history(A, B).
C7_MergeIdempotent == fn = "merge2" => fnMerged2 = fnMerged

\* C8: after a successful fetch the run exits non-zero without an image
\* exactly when the fetch result and the stored history are both empty; with
\* an empty fetch result and a stored history it plots, exits 0 and leaves the
\* stored dates and counts as they were.
C8_ExitCodes ==
    (pc = "exited" /\ ~raise_for_status(status)) =>
        LET stored == StoredRows(file0)
        IN  /\ (exitCode # 0 /\ ~plotted) <=> (empty(new_df) /\ empty(stored))
            /\ (empty(new_df) /\ ~empty(stored)) =>
                   (exitCode = 0 /\ plotted /\ StoredRows(file) = stored)

\* C9: for a contiguous daily series and days >= 1, last_n_days returns
\* exactly the entries dated end - (days - 1) .. end, where end is today if
\* today is a date of the series and its latest date otherwise: days entries
\* when the series has that many up to end, all entries up to end otherwise.
C9_Window ==
    (fn = "window" /\ ~empty(a) /\ Daily(a)) =>
        LET end == IF today \in DatesOf(a) THEN today ELSE a[Len(a)].date
            upTo == Cardinality({d \in DatesOf(a) : d <= end})
        IN  /\ fnWindow.name = "downloads"
            /\ DatesOf(fnWindow.data) = {d \in DatesOf(a) : end - (days - 1) <= d /\ d <= end}
            /\ Ascending(fnWindow.data)
            /\ \A i \in DOMAIN fnWindow.data :
                   fnWindow.data[i].downloads = CountAt(a, fnWindow.data[i].date)
            /\ Len(fnWindow.data) <= days
            /\ upTo >= days => Len(fnWindow.data) = days
            /\ upTo < days => Len(fnWindow.data) = upTo

C9_Witness ==
    /\ fn = "window"
    /\ Len(a) = 3 /\ Daily(a) /\ days = 2 /\ today = a[2].date
    /\ Len(fnWindow.data) = 2

\* C10: a request answered with an error status ends the run at once, after
\* one request, with the history file and the image as the run found them and
\* the history never loaded.
C10_HttpFailure ==
    (pc \notin {"idle", "fetch"} /\ status >= 400) =>
        /\ pc = "exited" /\ exitCode = 1 /\ error = "HTTPError"
        /\ requests = 1
        /\ file = file0 /\ image = image0 /\ ~plotted
        /\ existing_df = EmptyFrame /\ merged_df = EmptyFrame

C10_Witness ==
    /\ pc = "exited" /\ error = "HTTPError"
    /\ file0.exists /\ ~empty(file0.lines) /\ image0.exists

====
